---- MODULE Spec2Model ----
(***************************************************************************)
(* Voice-call conversation orchestrator of backend/app.py:                 *)
(* make_outbound_call, handle_user_speech, handle_recording_status with    *)
(* _process_and_store_twilio_recording, and handle_transcription_status,   *)
(* all working on the rows of the active_call_sessions table.              *)
(*                                                                         *)
(* Every handler is a request of its own; the table is the only state they *)
(* share, so a handler is cut into steps at its accesses to the table      *)
(* (select / insert / update) and to the storage bucket.  Timestamps       *)
(* (updated_at, turn timestamps) are left out: nothing reads them.         *)
(* An update of the table is taken to reach the store (it changes the row  *)
(* when there is one, and nothing otherwise); the insert, the selects of   *)
(* the speech and transcription handlers, the download, the upload, the    *)
(* LLM and the speech synthesis may fail.  A request that has answered     *)
(* keeps its answer only; its inputs and locals are dropped.               *)
(*                                                                         *)
(* Python None is the string "None" for scalar fields, the empty sequence  *)
(* for URLs and for the status column: a status is the sequence of the     *)
(* strings that handle_transcription_status joins with "_", so "completed" *)
(* is <<"completed">> and "completed_transcript_completed" is              *)
(* <<"completed", "transcript_completed">>.                                *)
(***************************************************************************)
EXTENDS Integers, Sequences, FiniteSets, TLC

\* ------------------------------------------------------------------ bounds
\* webhook deliveries (speech, recording-status, transcription) in one run
MaxWebhooks == 2

\* --------------------------------------------------------------- constants
None == "None"
NoUrl == << >>
NoStatus == << >>

CallSids == {"CA1"}
TwilioRecordingUrl == << "twilio", "RE1" >>
TheOutreachId == "O1"
TheRecordingSid == "RE1"
TheTranscriptionSid == "TR1"
TheUserId == "U1"
Greeting == "Hi Alex, got a minute?"

\* Confidence is kept as hundredths: 0.4 is 40
ConfidenceThreshold == 40
LowConfText == "I'm sorry, I didn't catch that clearly. Could you please say that again?"
EmptySpeechText == "Sorry, I didn't hear anything. Could you please say that again?"
LLMFallbackText == "I'm having a little trouble formulating a response right now. Could you try again in a moment?"
LLMReplyText == "llm reply"
NoContextText == "I'm sorry, there was an issue retrieving our conversation context. Please try calling back later."
TranscriptText == "final transcript"

\* ------------------------------------------------------------------ status
St(tok) == << tok >>
StatusOrUnknown(s) == IF s = NoStatus THEN St("unknown") ELSE s

\* --------------------------------------------------------------- metadata
EmptyMetadata ==
  [ initial_message_spoken |-> None, creator_name |-> None, brand_name |-> None,
    campaign_objective |-> None, email_conversation_summary |-> None,
    latest_twilio_call_status |-> NoStatus, last_twilio_callback_source |-> None,
    last_twilio_recording_sid |-> None,
    twilio_recording_url |-> NoUrl, twilio_recording_duration |-> None,
    twilio_recording_sid |-> None,
    twilio_recording_processed_successfully |-> FALSE,
    recording_processing_error |-> None,
    twilio_transcription_text |-> None, twilio_transcription_sid |-> None,
    twilio_transcription_status |-> None ]

call_metadata(message, creator_name, brand_name, campaign_objective, email_summary) ==
  [ EmptyMetadata EXCEPT !.initial_message_spoken = message,
                         !.creator_name = creator_name,
                         !.brand_name = brand_name,
                         !.campaign_objective = campaign_objective,
                         !.email_conversation_summary = email_summary ]

\* ------------------------------------------------------------ history turns
Turn(speaker, text, source) == [ speaker |-> speaker, text |-> text, source |-> source ]
AiTurn(text) == Turn("ai", text, None)
UserTurn(text) == Turn("user", text, None)
TranscriptTurn(text) == Turn("user", text, "twilio_final_transcript")

\* ------------------------------------------------------- response documents
Verb(v, a) == [ verb |-> v, arg |-> a ]
Utter_always_play(audio_url, text) == Verb("Play", "audio")
Utter(audio_url, text) == IF audio_url # NoUrl THEN Verb("Play", "audio") ELSE Verb("Say", text)
GatherVerb == Verb("Gather", "handle_user_speech")
HangupVerb == Verb("Hangup", None)

\* ------------------------------------------------------------------- table
Rows(table, call_sid) == { r \in table : r.call_sid = call_sid }
HasRow(table, call_sid) == Rows(table, call_sid) # {}
maybe_single(table, call_sid) == CHOOSE r \in Rows(table, call_sid) : TRUE

Message(outreach_id, content, sender, type) ==
  [ outreach_id |-> outreach_id, content |-> content, sender |-> sender, type |-> type ]

VARIABLES
  active_call_sessions,   \* the table: a set of rows
  call_recordings,        \* the storage bucket: the set of object paths
  conversation_messages,  \* the outreach-level message log
  temp_audio,             \* number of files in TEMP_AUDIO_DIR
  twilio_calls,           \* call sids the provider has been told to place
  mk,                     \* make_outbound_call request
  speech,                 \* handle_user_speech request
  rec,                    \* handle_recording_status request
  trans,                  \* handle_transcription_status request
  webhooks                \* number of webhook requests delivered so far

vars == << active_call_sessions, call_recordings, conversation_messages, temp_audio,
           twilio_calls, mk, speech, rec, trans, webhooks >>

\* ------------------------------------------------------- speech synthesis
TtsOutcomes == { "ok", "no_client", "provider_error", "stream_error", "empty_file" }
\* generate_audio_with_elevenlabs: the URL it returns and the files it leaves
TtsUrl(outcome) == IF outcome = "ok" THEN << "temp_audio" >> ELSE NoUrl
TtsFilesLeft_partial_kept(outcome) == IF outcome \in { "ok", "stream_error" } THEN 1 ELSE 0
TtsFilesLeft(outcome) == IF outcome = "ok" THEN 1 ELSE 0

\* ------------------------------------------------------ make_outbound_call
MkIdle ==
  [ pc |-> "idle", call_sid |-> None, audio_url |-> NoUrl, response |-> << >>, result |-> None ]

make_call_twiml(audio_url) ==
  << Utter(audio_url, Greeting), GatherVerb,
     Verb("Say", "We didn't receive a response. If you'd like to talk, please call us back later. Goodbye."),
     HangupVerb >>

session_data(call_sid, outreach_id, user_id, message) ==
  [ call_sid |-> call_sid, outreach_id |-> outreach_id, user_id |-> user_id,
    status |-> St("initiated"),
    conversation_history |-> << AiTurn(message) >>,
    metadata |-> call_metadata(message, "the creator", "our company",
                               "discuss a potential collaboration",
                               "No prior email conversation summary available.") ]

\* a request body that lacks one of to_phone_number, message, outreach_id
MakeCall_Reject ==
  /\ mk.pc = "idle"
  /\ mk' = [ mk EXCEPT !.pc = "done", !.result = "400" ]
  /\ UNCHANGED << active_call_sessions, call_recordings, conversation_messages,
                  temp_audio, twilio_calls, speech, rec, trans, webhooks >>

\* greeting audio, response document, twilio_client.calls.create
MakeCall_Place ==
  /\ mk.pc = "idle"
  /\ \E sid \in CallSids, tts \in TtsOutcomes, created \in BOOLEAN :
       /\ temp_audio' = temp_audio + TtsFilesLeft(tts)
       /\ IF created
            THEN /\ twilio_calls' = twilio_calls \cup { sid }
                 /\ mk' = [ mk EXCEPT !.pc = "placed", !.call_sid = sid,
                                      !.audio_url = TtsUrl(tts),
                                      !.response = make_call_twiml(TtsUrl(tts)) ]
            ELSE /\ twilio_calls' = twilio_calls
                 /\ mk' = [ mk EXCEPT !.pc = "done", !.result = "500" ]
  /\ UNCHANGED << active_call_sessions, call_recordings, conversation_messages,
                  speech, rec, trans, webhooks >>

\* insert into active_call_sessions, first message of the log, success answer
MakeCall_Store ==
  /\ mk.pc = "placed"
  /\ \E inserted \in BOOLEAN :
       active_call_sessions' =
         IF inserted
           THEN active_call_sessions \cup
                  { session_data(mk.call_sid, TheOutreachId, TheUserId, Greeting) }
           ELSE active_call_sessions
  /\ conversation_messages' =
       Append(conversation_messages, Message(TheOutreachId, Greeting, "ai", "call_exchange"))
  /\ mk' = [ mk EXCEPT !.pc = "done", !.result = "success" ]
  /\ UNCHANGED << call_recordings, temp_audio, twilio_calls, speech, rec, trans, webhooks >>

\* --------------------------------------------------------- agent_turn_twiml
NothingToSayText ==
  "I'm sorry, I encountered an issue and have nothing to say at the moment. Please try again later."
agent_turn_twiml(ai_audio_url, ai_message_text) ==
  IF ai_audio_url # NoUrl
    THEN << Verb("Play", "audio"), GatherVerb,
            Verb("Say", "We didn't catch your response. Goodbye."), HangupVerb >>
    ELSE IF ai_message_text \notin { None, "" }
      THEN << Verb("Say", ai_message_text), GatherVerb,
              Verb("Say", "We didn't catch your response. Goodbye."), HangupVerb >>
      ELSE << Verb("Say", NothingToSayText), HangupVerb >>

\* ------------------------------------------------------ handle_user_speech
SpeechResults == { None, "", "   ", "xyz", " xyz " }
\* the request carries no SpeechResult, an empty one or only white space
IsBlank(sr) == sr \in { None, "", "   " }
Confidences == { None, "abc", "0.2", "0.4", "0.9" }

\* request.form.get('SpeechResult', '').strip()
Strip_missing(s) == IF s = None THEN "" ELSE s
Strip(s) ==
  CASE s = None -> ""
    [] s = "   " -> ""
    [] s = " xyz " -> "xyz"
    [] OTHER -> s

\* float(request.form.get('Confidence', '0.0')), 0.0 on ValueError; in hundredths
ParseConfidence(c) ==
  CASE c = "0.2" -> 20
    [] c = "0.4" -> 40
    [] c = "0.9" -> 90
    [] OTHER -> 0

\* if speech_confidence < 0.4
IsLowConfidence_wrong(speech_confidence) == speech_confidence < 20
IsLowConfidence(speech_confidence) == speech_confidence < ConfidenceThreshold
\* if not user_speech_text
IsEmptySpeech(user_speech_text) == user_speech_text = ""

LlmOutcomes == { "ok", "network_error", "non_2xx", "empty_completion", "malformed", "no_key" }
LlmRequested(outcome) == outcome # "no_key"
\* ai_response_text_from_llm: the completion, or the text it was initialised with
LlmText_empty(outcome) ==
  IF outcome = "ok" THEN LLMReplyText
  ELSE IF outcome = "empty_completion" THEN "" ELSE LLMFallbackText
LlmText(outcome) == IF outcome = "ok" THEN LLMReplyText ELSE LLMFallbackText

SpeechIdle ==
  [ pc |-> "idle", call_sid |-> None, user_speech_text |-> "",
    speech_confidence |-> 0, speech_result_blank |-> FALSE, found |-> FALSE, row_absent |-> FALSE,
    fetched_history |-> << >>, current_conversation_history |-> << >>,
    outreach_id |-> None, path |-> None, llm_called |-> FALSE, llm_failed |-> FALSE,
    writes |-> 0, audio_url |-> NoUrl, response |-> << >>, http |-> None ]

no_session_twiml_gather == << Verb("Say", NoContextText), GatherVerb, HangupVerb >>
no_session_twiml == << Verb("Say", NoContextText), HangupVerb >>
low_conf_twiml(audio_url) ==
  << Utter(audio_url, LowConfText), GatherVerb,
     Verb("Say", "Sorry, I still didn't catch that. Goodbye."), HangupVerb >>
empty_speech_twiml(audio_url) ==
  << Utter(audio_url, EmptySpeechText), GatherVerb,
     Verb("Say", "We still didn't catch that. Please try calling back. Goodbye."), HangupVerb >>
final_response_twiml(audio_url, text) ==
  << Utter(audio_url, text), GatherVerb, HangupVerb >>

\* update_call_session_in_db(updated_history, status_text)
update_call_session_in_db_clears_metadata(table, call_sid, updated_history, status_text) ==
  { IF r.call_sid = call_sid
      THEN [ r EXCEPT !.conversation_history = updated_history, !.status = status_text,
                      !.metadata = EmptyMetadata ]
      ELSE r : r \in table }
update_call_session_in_db_no_status(table, call_sid, updated_history, status_text) ==
  { IF r.call_sid = call_sid
      THEN [ r EXCEPT !.conversation_history = updated_history ]
      ELSE r : r \in table }
update_call_session_in_db(table, call_sid, updated_history, status_text) ==
  { IF r.call_sid = call_sid
      THEN [ r EXCEPT !.conversation_history = updated_history, !.status = status_text ]
      ELSE r : r \in table }

\* the request arrives and the session is fetched
Speech_Receive ==
  /\ speech.pc \in { "idle", "done" }
  /\ webhooks < MaxWebhooks
  /\ webhooks' = webhooks + 1
  /\ twilio_calls # {}
  /\ \E sid \in twilio_calls \cup { None }, sr \in SpeechResults, cf \in Confidences,
        fetch_ok \in BOOLEAN :
       LET got == sid # None /\ fetch_ok /\ HasRow(active_call_sessions, sid)
           row == maybe_single(active_call_sessions, sid)
           base == [ SpeechIdle EXCEPT !.call_sid = sid,
                                       !.user_speech_text = Strip(sr),
                                       !.speech_result_blank = IsBlank(sr),
                                       !.speech_confidence = ParseConfidence(cf) ]
       IN  speech' =
             IF ~got
               THEN [ SpeechIdle EXCEPT !.pc = "done", !.path = "no_session",
                                  !.row_absent = (sid # None /\ fetch_ok),
                                  !.response = no_session_twiml, !.http = "200" ]
               ELSE [ base EXCEPT !.found = TRUE,
                                  !.fetched_history = row.conversation_history,
                                  !.current_conversation_history = row.conversation_history,
                                  !.outreach_id = row.outreach_id,
                                  !.pc = IF IsLowConfidence(ParseConfidence(cf)) THEN "low_conf"
                                         ELSE IF IsEmptySpeech(Strip(sr)) THEN "empty_speech"
                                         ELSE "user_turn" ]
  /\ UNCHANGED << active_call_sessions, call_recordings, conversation_messages,
                  temp_audio, twilio_calls, mk, rec, trans >>

\* low speech confidence: repeat prompt, update, audio, response
Speech_LowConf ==
  /\ speech.pc = "low_conf"
  /\ \E tts \in TtsOutcomes :
       LET h == Append(speech.current_conversation_history, AiTurn(LowConfText)) IN
       /\ active_call_sessions' =
            update_call_session_in_db(active_call_sessions, speech.call_sid, h,
                                      St("waiting_for_user_speech_low_conf"))
       /\ temp_audio' = temp_audio + TtsFilesLeft(tts)
       /\ speech' = [ SpeechIdle EXCEPT !.pc = "done", !.path = "low_conf",
                                    !.found = TRUE, !.writes = speech.writes + 1,
                                    !.audio_url = TtsUrl(tts),
                                    !.response = low_conf_twiml(TtsUrl(tts)), !.http = "200" ]
  /\ UNCHANGED << call_recordings, conversation_messages, twilio_calls, mk, rec, trans, webhooks >>

\* empty speech: repeat prompt, update, audio, response
Speech_Empty ==
  /\ speech.pc = "empty_speech"
  /\ \E tts \in TtsOutcomes :
       LET h == Append(speech.current_conversation_history, AiTurn(EmptySpeechText)) IN
       /\ active_call_sessions' =
            update_call_session_in_db(active_call_sessions, speech.call_sid, h,
                                      St("waiting_for_user_speech_empty"))
       /\ temp_audio' = temp_audio + TtsFilesLeft(tts)
       /\ speech' = [ SpeechIdle EXCEPT !.pc = "done", !.path = "empty_speech",
                                    !.found = TRUE, !.writes = speech.writes + 1,
                                    !.audio_url = TtsUrl(tts),
                                    !.response = empty_speech_twiml(TtsUrl(tts)), !.http = "200" ]
  /\ UNCHANGED << call_recordings, conversation_messages, twilio_calls, mk, rec, trans, webhooks >>

\* valid speech: the user turn is appended, stored and logged
Speech_UserTurn ==
  /\ speech.pc = "user_turn"
  /\ LET h == Append(speech.current_conversation_history, UserTurn(speech.user_speech_text)) IN
       /\ active_call_sessions' =
            update_call_session_in_db(active_call_sessions, speech.call_sid, h,
                                      St("processing_user_speech"))
       /\ speech' = [ speech EXCEPT !.pc = "ai_turn", !.path = "turn",
                                    !.current_conversation_history = h, !.writes = @ + 1 ]
  /\ conversation_messages' =
       IF speech.outreach_id # None /\ speech.outreach_id # "unknown_outreach_id"
         THEN Append(conversation_messages,
                     Message(speech.outreach_id, speech.user_speech_text, "creator", "call_exchange"))
         ELSE conversation_messages
  /\ UNCHANGED << call_recordings, temp_audio, twilio_calls, mk, rec, trans, webhooks >>

\* the LLM answers or fails, the AI turn is appended, stored and logged,
\* the audio is generated and the response returned
Speech_AiTurn ==
  /\ speech.pc = "ai_turn"
  /\ \E llm \in LlmOutcomes, tts \in TtsOutcomes :
       LET text == LlmText(llm)
           h == Append(speech.current_conversation_history, AiTurn(text)) IN
       /\ active_call_sessions' =
            update_call_session_in_db(active_call_sessions, speech.call_sid, h,
                                      St("waiting_for_user_speech"))
       /\ conversation_messages' =
            IF speech.outreach_id # None /\ speech.outreach_id # "unknown_outreach_id"
              THEN Append(conversation_messages,
                          Message(speech.outreach_id, text, "ai", "call_exchange"))
              ELSE conversation_messages
       /\ temp_audio' = temp_audio + TtsFilesLeft(tts)
       /\ speech' = [ SpeechIdle EXCEPT !.pc = "done", !.path = "turn",
                                    !.found = TRUE,
                                    !.llm_called = LlmRequested(llm),
                                    !.llm_failed = (llm # "ok"),
                                    !.audio_url = TtsUrl(tts),
                                    !.writes = speech.writes + 1,
                                    !.response = final_response_twiml(TtsUrl(tts), text),
                                    !.http = "200" ]
  /\ UNCHANGED << call_recordings, twilio_calls, mk, rec, trans, webhooks >>

\* -------------------------------------------------- handle_recording_status
CallStatuses == { None, "in-progress", "completed", "failed" }
\* (RecordingSid, RecordingUrl, RecordingDuration) of a request
RecordingFields ==
  { << None, NoUrl, None >>, << TheRecordingSid, NoUrl, None >>,
    << TheRecordingSid, TwilioRecordingUrl, "42" >> }
ToStatus(call_status) == IF call_status = None THEN NoStatus ELSE St(call_status)
DownloadErrorText == "Network error downloading recording"
EmptyRecordingText == "Downloaded recording was empty."
UploadErrorText == "General error in _process_and_store_twilio_recording"

RecIdle ==
  [ pc |-> "idle", call_sid |-> None, outreach_id |-> None, source |-> None,
    recording_sid |-> None, recording_url_twilio |-> NoUrl, recording_duration |-> None,
    actual_call_status |-> NoStatus,
    found |-> FALSE, row_absent |-> FALSE, fetched_metadata |-> EmptyMetadata,
    reconciled |-> FALSE, uploaded |-> FALSE, err_msg |-> None,
    work_metadata |-> EmptyMetadata, work_status |-> NoStatus, http |-> None ]

\* f"{outreach_id}/{call_sid}_{recording_sid}.mp3"
storage_path(outreach_id, call_sid, recording_sid) == << outreach_id, call_sid, recording_sid >>
\* storage.from_("call-recordings").get_public_url(storage_path)
get_public_url(path) == << "supabase", "call-recordings" >> \o path

\* which branch of the handler runs the reconciler
ShouldProcess(recording_processed_successfully, actual_call_status, recording_sid, recording_url_twilio) ==
  /\ ~recording_processed_successfully
  /\ actual_call_status = St("completed")
  /\ recording_sid # None
  /\ recording_url_twilio # NoUrl

\* current_metadata.update({...}) of the reconciler's success path
recording_success_metadata_no_url(current_metadata, public_url_supabase, recording_duration_str, recording_sid) ==
  [ current_metadata EXCEPT
      !.twilio_recording_duration =
         IF recording_duration_str # None THEN recording_duration_str ELSE @,
      !.twilio_recording_sid = recording_sid,
      !.twilio_recording_processed_successfully = TRUE,
      !.recording_processing_error = None ]
recording_success_metadata(current_metadata, public_url_supabase, recording_duration_str, recording_sid) ==
  [ current_metadata EXCEPT
      !.twilio_recording_url = public_url_supabase,
      !.twilio_recording_duration =
         IF recording_duration_str # None THEN recording_duration_str ELSE @,
      !.twilio_recording_sid = recording_sid,
      !.twilio_recording_processed_successfully = TRUE,
      !.recording_processing_error = None ]

\* update_call_session_with_error: what it does to the metadata it fetched
recording_error_metadata(current_metadata, error_message_value) ==
  [ current_metadata EXCEPT
      !.recording_processing_error = error_message_value,
      !.twilio_recording_processed_successfully = FALSE ]

\* the handler's closing update: metadata of its own fetch plus bookkeeping
recording_status_metadata(current_metadata, actual_call_status, callback_source, recording_sid) ==
  [ current_metadata EXCEPT
      !.latest_twilio_call_status = actual_call_status,
      !.last_twilio_callback_source = callback_source,
      !.last_twilio_recording_sid = IF recording_sid # None THEN recording_sid ELSE @ ]

\* .update({"metadata": ..., "status": ...}).eq("call_sid", call_sid)
update_metadata_status_delete(table, call_sid, metadata, status) ==
  { r \in table : r.call_sid # call_sid }
update_metadata_status(table, call_sid, metadata, status) ==
  { IF r.call_sid = call_sid
      THEN [ r EXCEPT !.metadata = metadata, !.status = status ]
      ELSE r : r \in table }

\* outreach_id of the query, else the one of the row of the CallSid, else none
resolve_outreach_id_query_only(outreach_id_from_query, table, call_sid) ==
  outreach_id_from_query
resolve_outreach_id(outreach_id_from_query, table, call_sid) ==
  IF outreach_id_from_query # None THEN outreach_id_from_query
  ELSE IF HasRow(table, call_sid) THEN maybe_single(table, call_sid).outreach_id
  ELSE None

\* the request arrives; CallSid and outreach_id are settled
Rec_Receive ==
  /\ rec.pc \in { "idle", "done" }
  /\ webhooks < MaxWebhooks
  /\ webhooks' = webhooks + 1
  /\ twilio_calls # {}
  /\ \E sid \in twilio_calls \cup { None }, oid \in { None, TheOutreachId },
        cs \in CallStatuses, rf \in RecordingFields :
       LET base == [ RecIdle EXCEPT !.call_sid = sid,
                                    !.source = "call_create",
                                    !.recording_sid = rf[1], !.recording_url_twilio = rf[2],
                                    !.recording_duration = rf[3],
                                    !.actual_call_status = ToStatus(cs) ]
           outreach == resolve_outreach_id(oid, active_call_sessions, sid)
       IN  rec' =
             IF sid = None \/ outreach = None
               THEN [ RecIdle EXCEPT !.pc = "done", !.http = "400" ]
               ELSE [ base EXCEPT !.pc = "fetch", !.outreach_id = outreach ]
  /\ UNCHANGED << active_call_sessions, call_recordings, conversation_messages,
                  temp_audio, twilio_calls, mk, speech, trans >>

\* select("*, metadata") and the choice of the branch (the select itself
\* is taken to answer; a call placed but not yet stored gives no row)
Rec_Fetch ==
  /\ rec.pc = "fetch"
  /\ LET got == HasRow(active_call_sessions, rec.call_sid)
           md == IF got THEN maybe_single(active_call_sessions, rec.call_sid).metadata
                        ELSE EmptyMetadata
           process == ShouldProcess(md.twilio_recording_processed_successfully,
                                    rec.actual_call_status, rec.recording_sid,
                                    rec.recording_url_twilio)
       IN  rec' = [ rec EXCEPT !.found = got, !.row_absent = ~got,
                               !.fetched_metadata = md,
                               !.reconciled = process,
                               !.pc = IF process THEN "download" ELSE "final_update" ]
  /\ UNCHANGED << active_call_sessions, call_recordings, conversation_messages,
                  temp_audio, twilio_calls, mk, speech, trans, webhooks >>

\* requests.get of the recording
Rec_Download ==
  /\ rec.pc = "download"
  /\ \E outcome \in { "ok", "http_error", "empty" } :
       rec' = CASE outcome = "ok" -> [ rec EXCEPT !.pc = "upload" ]
                [] outcome = "http_error" ->
                     [ rec EXCEPT !.pc = "err_fetch", !.err_msg = DownloadErrorText ]
                [] outcome = "empty" ->
                     [ rec EXCEPT !.pc = "err_fetch", !.err_msg = EmptyRecordingText ]
  /\ UNCHANGED << active_call_sessions, call_recordings, conversation_messages,
                  temp_audio, twilio_calls, mk, speech, trans, webhooks >>

\* storage upload with upsert
Rec_Upload ==
  /\ rec.pc = "upload"
  /\ \E ok \in BOOLEAN :
       IF ok
         THEN /\ call_recordings' = call_recordings \cup
                   { storage_path(rec.outreach_id, rec.call_sid, rec.recording_sid) }
              /\ rec' = [ rec EXCEPT !.pc = "proc_fetch", !.uploaded = TRUE ]
         ELSE /\ call_recordings' = call_recordings
              /\ rec' = [ rec EXCEPT !.pc = "err_fetch", !.err_msg = UploadErrorText ]
  /\ UNCHANGED << active_call_sessions, conversation_messages, temp_audio,
                  twilio_calls, mk, speech, trans, webhooks >>

\* reconciler: select("metadata, status") before its update
Rec_ProcFetch ==
  /\ rec.pc = "proc_fetch"
  /\ LET got == HasRow(active_call_sessions, rec.call_sid)
         row == maybe_single(active_call_sessions, rec.call_sid)
     IN  rec' = [ rec EXCEPT !.pc = "proc_update",
                             !.work_metadata = IF got THEN row.metadata ELSE EmptyMetadata,
                             !.work_status = IF got THEN row.status
                                                    ELSE St("call_completed_recorded") ]
  /\ UNCHANGED << active_call_sessions, call_recordings, conversation_messages,
                  temp_audio, twilio_calls, mk, speech, trans, webhooks >>

\* reconciler: update with the public URL, then the log message
Rec_ProcUpdate ==
  /\ rec.pc = "proc_update"
  /\ LET url == get_public_url(storage_path(rec.outreach_id, rec.call_sid, rec.recording_sid))
     IN  /\ active_call_sessions' =
              update_metadata_status(active_call_sessions, rec.call_sid,
                recording_success_metadata(rec.work_metadata, url,
                                           rec.recording_duration, rec.recording_sid),
                rec.work_status)
         /\ conversation_messages' =
              Append(conversation_messages,
                     Message(rec.outreach_id, "Call recording available.", "system", "call_recording"))
  /\ rec' = [ rec EXCEPT !.pc = "final_update" ]
  /\ UNCHANGED << call_recordings, temp_audio, twilio_calls, mk, speech, trans, webhooks >>

\* update_call_session_with_error: select("metadata")
Rec_ErrFetch ==
  /\ rec.pc = "err_fetch"
  /\ LET got == HasRow(active_call_sessions, rec.call_sid)
     IN  rec' = [ rec EXCEPT !.pc = "err_update",
                             !.work_metadata =
                                IF got THEN maybe_single(active_call_sessions, rec.call_sid).metadata
                                       ELSE EmptyMetadata ]
  /\ UNCHANGED << active_call_sessions, call_recordings, conversation_messages,
                  temp_audio, twilio_calls, mk, speech, trans, webhooks >>

\* update_call_session_with_error: update
Rec_ErrUpdate ==
  /\ rec.pc = "err_update"
  /\ active_call_sessions' =
       update_metadata_status(active_call_sessions, rec.call_sid,
                              recording_error_metadata(rec.work_metadata, rec.err_msg),
                              St("error_processing_recording"))
  /\ rec' = [ rec EXCEPT !.pc = "final_update" ]
  /\ UNCHANGED << call_recordings, conversation_messages, temp_audio,
                  twilio_calls, mk, speech, trans, webhooks >>

\* the handler's closing update of metadata and status, and its answer
Rec_FinalUpdate ==
  /\ rec.pc = "final_update"
  /\ active_call_sessions' =
       update_metadata_status(active_call_sessions, rec.call_sid,
         recording_status_metadata(rec.fetched_metadata, rec.actual_call_status,
                                   rec.source, rec.recording_sid),
         rec.actual_call_status)
  /\ rec' = [ RecIdle EXCEPT !.pc = "done", !.http = "200" ]
  /\ UNCHANGED << call_recordings, conversation_messages, temp_audio,
                  twilio_calls, mk, speech, trans, webhooks >>

\* ----------------------------------------------- handle_transcription_status
TranscriptionStatuses == { "completed", "failed", "in-progress" }

TransIdle ==
  [ pc |-> "idle", call_sid |-> None, transcription_sid |-> None,
    transcription_status |-> None, transcription_text |-> None,
    row_absent |-> FALSE, appended |-> FALSE,
    current_metadata |-> EmptyMetadata, current_conversation_history |-> << >>,
    current_db_status |-> NoStatus, http |-> None ]

IsCompletedTranscript(trans_status, text) == trans_status = "completed" /\ text # None /\ text # ""

\* the metadata the handler writes back
transcription_metadata(current_metadata, trans_status, text, transcription_sid) ==
  IF IsCompletedTranscript(trans_status, text)
    THEN [ current_metadata EXCEPT !.twilio_transcription_text = text,
                                   !.twilio_transcription_sid = transcription_sid,
                                   !.twilio_transcription_status = trans_status ]
    ELSE [ current_metadata EXCEPT !.twilio_transcription_status = trans_status ]

\* .update(update_payload): conversation_history and status only when the payload has them
transcription_update(table, call_sid, t) ==
  { IF r.call_sid = call_sid
      THEN [ r EXCEPT
               !.metadata = transcription_metadata(t.current_metadata, t.transcription_status,
                                                   t.transcription_text, t.transcription_sid),
               !.conversation_history =
                  IF IsCompletedTranscript(t.transcription_status, t.transcription_text)
                    THEN Append(t.current_conversation_history,
                                TranscriptTurn(t.transcription_text))
                    ELSE @,
               !.status =
                  IF IsCompletedTranscript(t.transcription_status, t.transcription_text)
                    THEN StatusOrUnknown(t.current_db_status) \o St("transcript_completed")
                  ELSE IF t.transcription_status = "failed"
                    THEN StatusOrUnknown(t.current_db_status) \o St("transcript_failed")
                  ELSE @ ]
      ELSE r : r \in table }

\* the request arrives and the session is fetched
Trans_Receive ==
  /\ trans.pc \in { "idle", "done" }
  /\ webhooks < MaxWebhooks
  /\ webhooks' = webhooks + 1
  /\ twilio_calls # {}
  /\ \E sid \in twilio_calls \cup { None }, ts \in TranscriptionStatuses,
        txt \in { None, TranscriptText }, fetch_ok \in BOOLEAN :
       LET got == sid # None /\ fetch_ok /\ HasRow(active_call_sessions, sid)
           row == maybe_single(active_call_sessions, sid)
           base == [ TransIdle EXCEPT !.call_sid = sid,
                                      !.transcription_sid = TheTranscriptionSid,
                                      !.transcription_status = ts,
                                      !.transcription_text = txt ]
       IN  trans' =
             IF ~got
               THEN [ TransIdle EXCEPT !.pc = "done", !.http = "200",
                                  !.row_absent = (sid # None /\ fetch_ok) ]
               ELSE [ base EXCEPT !.pc = "update",
                                  !.current_metadata = row.metadata,
                                  !.current_conversation_history = row.conversation_history,
                                  !.current_db_status = row.status ]
  /\ UNCHANGED << active_call_sessions, call_recordings, conversation_messages,
                  temp_audio, twilio_calls, mk, speech, rec >>

\* the update and the answer
Trans_Update ==
  /\ trans.pc = "update"
  /\ active_call_sessions' = transcription_update(active_call_sessions, trans.call_sid, trans)
  /\ trans' = [ TransIdle EXCEPT !.pc = "done", !.http = "200",
                             !.appended = IsCompletedTranscript(trans.transcription_status,
                                                                trans.transcription_text) ]
  /\ UNCHANGED << call_recordings, conversation_messages, temp_audio,
                  twilio_calls, mk, speech, rec, webhooks >>

\* -------------------------------------------------- get_call_progress_status
\* the statuses of the row that are passed on as the progress
PassedOnStatuses ==
  { St("completed"), St("failed"), St("canceled"), St("error_processing_recording") }

get_call_progress_status_status_first(table, call_sid) ==
  IF ~HasRow(table, call_sid) THEN St("not_found")
  ELSE LET call_session == maybe_single(table, call_sid)
           db_status == StatusOrUnknown(call_session.status)
       IN  IF db_status \in PassedOnStatuses THEN db_status ELSE St("processing")
\* the "status" of the 200 answer
get_call_progress_status(table, call_sid) ==
  IF ~HasRow(table, call_sid) THEN St("not_found")
  ELSE LET call_session == maybe_single(table, call_sid)
           metadata == call_session.metadata
           db_status == StatusOrUnknown(call_session.status)
           is_recording_processed == metadata.twilio_recording_processed_successfully
           has_recording_url == metadata.twilio_recording_url # NoUrl
       IN  IF is_recording_processed /\ has_recording_url THEN St("completed")
           ELSE IF db_status \in PassedOnStatuses
             THEN IF db_status = St("completed") THEN St("processing_artifacts")
                  ELSE db_status
           ELSE St("processing")

\* ------------------------------------------------------------ specification
Init ==
  /\ active_call_sessions = {}
  /\ call_recordings = {}
  /\ conversation_messages = << >>
  /\ temp_audio = 0
  /\ twilio_calls = {}
  /\ mk = MkIdle
  /\ speech = SpeechIdle
  /\ rec = RecIdle
  /\ trans = TransIdle
  /\ webhooks = 0

Next ==
  \/ MakeCall_Reject
  \/ MakeCall_Place
  \/ MakeCall_Store
  \/ Speech_Receive
  \/ Speech_LowConf
  \/ Speech_Empty
  \/ Speech_UserTurn
  \/ Speech_AiTurn
  \/ Rec_Receive
  \/ Rec_Fetch
  \/ Rec_Download
  \/ Rec_Upload
  \/ Rec_ProcFetch
  \/ Rec_ProcUpdate
  \/ Rec_ErrFetch
  \/ Rec_ErrUpdate
  \/ Rec_FinalUpdate
  \/ Trans_Receive
  \/ Trans_Update

Spec == Init /\ [][Next]_vars

\* The same program and the same steps, with room for one more webhook than
\* Spec has: the count of webhooks starts below zero by ExtraWebhooks.
ExtraWebhooks == 1
InitLong ==
  /\ active_call_sessions = {}
  /\ call_recordings = {}
  /\ conversation_messages = << >>
  /\ temp_audio = 0
  /\ twilio_calls = {}
  /\ mk = MkIdle
  /\ speech = SpeechIdle
  /\ rec = RecIdle
  /\ trans = TransIdle
  /\ webhooks = 0 - ExtraWebhooks

LongSpec == InitLong /\ [][Next]_vars

\* Each request runs in a thread of its own, so a step that only computes or
\* that waits on the store, on storage or on the synthesis client is taken in
\* the end.  The two steps that wait on requests.post / requests.get, which
\* are called without a timeout, are taken only if the remote side answers.
LiveSpec ==
  /\ Spec
  /\ WF_vars(MakeCall_Store)
  /\ WF_vars(Speech_LowConf) /\ WF_vars(Speech_Empty) /\ WF_vars(Speech_UserTurn)
  /\ WF_vars(Rec_Fetch) /\ WF_vars(Rec_Upload)
  /\ WF_vars(Rec_ProcFetch) /\ WF_vars(Rec_ProcUpdate)
  /\ WF_vars(Rec_ErrFetch) /\ WF_vars(Rec_ErrUpdate) /\ WF_vars(Rec_FinalUpdate)
  /\ WF_vars(Trans_Update)

\* ================================================================== claims
IsPrefix(a, b) == Len(a) <= Len(b) /\ SubSeq(b, 1, Len(a)) = a
Contains(h, turn) == \E i \in 1..Len(h) : h[i] = turn
TerminalStatuses == { St("completed"), St("failed") }
SpeechFinishes == speech.pc # "done" /\ speech'.pc = "done"
RecFinishes == rec.pc = "final_update" /\ rec'.pc = "done"

\* C1: whatever the interleaving of the webhooks of one call, the persisted
\* conversation_history never gets shorter and no persisted entry changes:
\* the history before a step is a prefix of the history after it.
C1_HistoryAppendOnly ==
  [][ \A r \in active_call_sessions : \A q \in active_call_sessions' :
        q.call_sid = r.call_sid => IsPrefix(r.conversation_history, q.conversation_history) ]_vars

\* C2: no lost update between a speech turn and a completed transcription
\* callback: once both have finished, the history holds the user turn and
\* the AI reply of the speech handler and the transcript entry.
C2_NoLostUpdate ==
  ( /\ speech.pc = "done" /\ speech.path = "turn"
    /\ trans.pc = "done" /\ trans.appended )
  => \A r \in active_call_sessions :
        /\ Contains(r.conversation_history, UserTurn("xyz"))
        /\ \/ Contains(r.conversation_history, AiTurn(LLMReplyText))
           \/ Contains(r.conversation_history, AiTurn(LLMFallbackText))
        /\ Contains(r.conversation_history, TranscriptTurn(TranscriptText))

\* C3: the session row is stored before any webhook of the call is handled:
\* no webhook of a placed call reads the table and finds no row.
C3_SessionBeforeWebhook ==
  ~speech.row_absent /\ ~rec.row_absent /\ ~trans.row_absent

\* C4: when a completed recording-status webhook with recording id, URL and
\* duration has been handled for an existing session, download and upload
\* having succeeded, the row's metadata has the processed flag, the duration
\* of the request, and the object is in storage at the derived path.
C4_RecordingProcessed ==
  [][ (RecFinishes /\ rec.found /\ rec.reconciled /\ rec.uploaded)
      => /\ storage_path(rec.outreach_id, rec.call_sid, rec.recording_sid) \in call_recordings'
         /\ \A q \in Rows(active_call_sessions', rec.call_sid) :
              /\ q.metadata.twilio_recording_processed_successfully
              /\ q.metadata.twilio_recording_duration = rec.recording_duration ]_vars

\* C5: redelivery of a completed recording-status webhook leaves one storage
\* object, and once the processed flag is true it stays true with the same
\* recording URL.
C5_IdempotentReconciliation ==
  [][ /\ Cardinality(call_recordings') <= 1
      /\ \A r \in active_call_sessions : \A q \in active_call_sessions' :
           (q.call_sid = r.call_sid /\ r.metadata.twilio_recording_processed_successfully)
           => /\ q.metadata.twilio_recording_processed_successfully
              /\ q.metadata.twilio_recording_url = r.metadata.twilio_recording_url ]_vars

\* C6: in every reachable row, a true processed flag comes with a recording
\* URL that is present and is the storage's public URL of the recording,
\* not the provider's RecordingUrl.
C6_ProcessedImpliesDurableUrl ==
  \A r \in active_call_sessions :
    r.metadata.twilio_recording_processed_successfully
    => /\ r.metadata.twilio_recording_url # NoUrl
       /\ r.metadata.twilio_recording_url # TwilioRecordingUrl
       /\ r.metadata.twilio_recording_url =
            get_public_url(storage_path(r.outreach_id, r.call_sid, r.metadata.twilio_recording_sid))

C6_Witness ==
  \E r \in active_call_sessions :
    /\ r.metadata.twilio_recording_processed_successfully
    /\ r.metadata.twilio_recording_url = get_public_url(storage_path("O1", "CA1", "RE1"))
    /\ storage_path("O1", "CA1", "RE1") \in call_recordings

\* C7: a terminal status (completed, failed) is never replaced by a
\* non-terminal one.
C7_TerminalStatusKept ==
  [][ \A r \in active_call_sessions : \A q \in active_call_sessions' :
        (q.call_sid = r.call_sid /\ r.status \in TerminalStatuses)
        => q.status \in TerminalStatuses ]_vars

\* C8: when a recording-status webhook brings a terminal CallStatus that
\* differs from the terminal status of the row, the row afterwards still
\* shows both: each is the status or a status kept in the metadata.
C8_ConflictingTerminalRecorded ==
  [][ \A r \in active_call_sessions : \A q \in active_call_sessions' :
        ( /\ RecFinishes /\ q.call_sid = r.call_sid /\ r.call_sid = rec.call_sid
          /\ r.status \in TerminalStatuses
          /\ rec.actual_call_status \in TerminalStatuses
          /\ rec.actual_call_status # r.status )
        => { r.status, rec.actual_call_status }
             \subseteq { q.status, q.metadata.latest_twilio_call_status } ]_vars

\* C9: a speech webhook with Confidence below 0.4 on an existing session
\* stores the fetched history plus exactly one AI repeat prompt (no user
\* turn), in a single update, makes no LLM request, and answers 200 with the
\* prompt followed by a gather that calls back handle_user_speech.
C9_LowConfidenceGate ==
  [][ (SpeechFinishes /\ speech.found /\ speech.speech_confidence < ConfidenceThreshold)
      => /\ \A q \in Rows(active_call_sessions', speech.call_sid) :
              q.conversation_history = Append(speech.fetched_history, AiTurn(LowConfText))
         /\ speech'.writes = 1
         /\ ~speech'.llm_called
         /\ speech'.http = "200"
         /\ speech'.response[1] \in { Verb("Play", "audio"), Verb("Say", LowConfText) }
         /\ speech'.response[2] = GatherVerb ]_vars

C9_Witness ==
  /\ speech.pc = "done" /\ speech.path = "low_conf" /\ speech.found
  /\ speech.response[2] = GatherVerb
  /\ \E r \in active_call_sessions :
       r.conversation_history[Len(r.conversation_history)] = AiTurn(LowConfText)

\* C10: a speech webhook whose SpeechResult is missing, empty or white space
\* only, on an existing session, takes the control flow of the low-confidence
\* path: the fetched history plus exactly one AI repeat prompt is stored in a
\* single update, no user turn, no LLM request, and the gather is re-opened.
C10_EmptySpeechGate ==
  [][ (SpeechFinishes /\ speech.found /\ speech.speech_result_blank)
      => \E prompt \in { LowConfText, EmptySpeechText } :
           /\ \A q \in Rows(active_call_sessions', speech.call_sid) :
                q.conversation_history = Append(speech.fetched_history, AiTurn(prompt))
           /\ speech'.writes = 1
           /\ ~speech'.llm_called
           /\ speech'.http = "200"
           /\ speech'.response[1] \in { Verb("Play", "audio"), Verb("Say", prompt) }
           /\ speech'.response[2] = GatherVerb ]_vars

C10_Witness ==
  /\ speech.pc = "done" /\ speech.path = "empty_speech" /\ speech.found
  /\ speech.response[2] = GatherVerb
  /\ \E r \in active_call_sessions :
       r.conversation_history[Len(r.conversation_history)] = AiTurn(EmptySpeechText)

\* C11: a speech webhook with non-empty speech and Confidence of at least 0.4
\* on an existing session stores the fetched history plus the user turn and
\* then the AI reply, in that order and nothing else, with status
\* waiting_for_user_speech; after the greeting alone that is 3 entries.
C11_ValidTurnAppendsTwo ==
  [][ ( /\ SpeechFinishes /\ speech.found /\ ~speech.speech_result_blank
        /\ speech.speech_confidence >= ConfidenceThreshold )
      => /\ speech'.writes = 2
         /\ \A q \in Rows(active_call_sessions', speech.call_sid) :
              /\ q.status = St("waiting_for_user_speech")
              /\ Len(q.conversation_history) = Len(speech.fetched_history) + 2
              /\ IsPrefix(speech.fetched_history, q.conversation_history)
              /\ q.conversation_history[Len(speech.fetched_history) + 1] = UserTurn("xyz")
              /\ q.conversation_history[Len(speech.fetched_history) + 2]
                   \in { AiTurn(LLMReplyText), AiTurn(LLMFallbackText) }
              /\ (speech.fetched_history = << AiTurn(Greeting) >>
                    => Len(q.conversation_history) = 3) ]_vars

C11_Witness ==
  /\ speech.pc = "done" /\ speech.path = "turn" /\ speech.writes = 2
  /\ \E r \in active_call_sessions :
       /\ r.conversation_history = << AiTurn(Greeting), UserTurn("xyz"), AiTurn(LLMReplyText) >>
       /\ r.status = St("waiting_for_user_speech")

\* C12: when the LLM step of a valid turn fails (network error, non-2xx,
\* empty or malformed completion, no API key), the AI turn stored is the
\* fixed non-empty fallback text, the status is waiting_for_user_speech, and
\* the answer is 200 with a document that plays or says that text and then
\* gathers.
C12_LlmFailureFallback ==
  [][ (SpeechFinishes /\ speech.pc = "ai_turn" /\ speech'.llm_failed)
      => /\ LLMFallbackText # ""
         /\ \A q \in Rows(active_call_sessions', speech.call_sid) :
              /\ q.conversation_history[Len(q.conversation_history)] = AiTurn(LLMFallbackText)
              /\ q.status = St("waiting_for_user_speech")
         /\ speech'.http = "200"
         /\ speech'.response[1] \in { Verb("Play", "audio"), Verb("Say", LLMFallbackText) }
         /\ speech'.response[2] = GatherVerb ]_vars

C12_Witness ==
  /\ speech.pc = "done" /\ speech.path = "turn" /\ speech.llm_failed /\ speech.http = "200"
  /\ \E r \in active_call_sessions :
       r.conversation_history[Len(r.conversation_history)] = AiTurn(LLMFallbackText)

\* the text a finished speech request had to utter
SpokenText ==
  CASE speech.path = "low_conf" -> LowConfText
    [] speech.path = "empty_speech" -> EmptySpeechText
    [] speech.path = "turn" -> IF speech.llm_failed THEN LLMFallbackText ELSE LLMReplyText
    [] OTHER -> NoContextText

\* C13: when synthesis gave no URL, the document of make_outbound_call and of
\* each path of handle_user_speech that synthesises starts with say of the
\* utterance text, and the rest is what it is with a URL: a gather next and a
\* hangup last.
C13_SayFallbackWellFormed ==
  /\ (mk.response # << >> /\ mk.audio_url = NoUrl)
       => /\ mk.response[1] = Verb("Say", Greeting)
          /\ mk.response[2] = GatherVerb
          /\ mk.response[Len(mk.response)] = HangupVerb
          /\ Tail(mk.response) = Tail(make_call_twiml(TwilioRecordingUrl))
  /\ (speech.pc = "done" /\ speech.found /\ speech.audio_url = NoUrl)
       => /\ speech.response[1] = Verb("Say", SpokenText)
          /\ speech.response[2] = GatherVerb
          /\ speech.response[Len(speech.response)] = HangupVerb

C13_Witness ==
  /\ mk.response # << >> /\ mk.audio_url = NoUrl
  /\ speech.pc = "done" /\ speech.path = "turn" /\ speech.audio_url = NoUrl
  /\ speech.response[1] = Verb("Say", LLMReplyText)

\* a step that takes in a speech webhook
SpeechReceives ==
  /\ speech.pc \in { "idle", "done" }
  /\ webhooks' # webhooks
  /\ UNCHANGED << mk, rec, trans >>

\* C14: a speech webhook for which no session is fetched (no CallSid, no row,
\* or a failed fetch) is answered at once with 200 and a document of an
\* apology and a hangup without a gather; no LLM request, no synthesis, and
\* neither the session table nor the message log changes.  Only a request
\* whose CallSid has a row goes on.
C14_NoSessionTerminal ==
  [][ SpeechReceives
      => /\ speech'.pc \notin { "idle", "done" }
              => HasRow(active_call_sessions, speech'.call_sid)
         /\ (speech'.pc = "done" /\ speech'.path = "no_session")
              => /\ speech'.http = "200"
                 /\ speech'.response[1] = Verb("Say", NoContextText)
                 /\ speech'.response[Len(speech'.response)] = HangupVerb
                 /\ \A i \in 1..Len(speech'.response) : speech'.response[i] # GatherVerb
                 /\ ~speech'.llm_called
                 /\ speech'.writes = 0
                 /\ UNCHANGED << active_call_sessions, conversation_messages, temp_audio >> ]_vars

C14_Witness ==
  /\ speech.pc = "done" /\ speech.path = "no_session" /\ speech.row_absent
  /\ speech.response = << Verb("Say", NoContextText), HangupVerb >>
  /\ active_call_sessions = {}

\* after every gather of the document comes a say and then a hangup
GatherHasNoInputFallback(doc) ==
  \A i \in 1..Len(doc) :
    doc[i] = GatherVerb
      => /\ Len(doc) >= i + 2
         /\ doc[i + 1].verb = "Say"
         /\ doc[i + 2] = HangupVerb

\* C15: every document with a gather (make_outbound_call, agent_turn_twiml,
\* and the low-confidence, empty-speech and normal-turn answers of
\* handle_user_speech) has, after the gather, a spoken apology and then a
\* hangup.
C15_GatherHasNoInputFallback ==
  /\ GatherHasNoInputFallback(mk.response)
  /\ GatherHasNoInputFallback(speech.response)
  /\ \A u \in { NoUrl, TwilioRecordingUrl }, t \in { None, "", LLMReplyText } :
       GatherHasNoInputFallback(agent_turn_twiml(u, t))

\* the transcription handler writes its update
TransUpdates == trans.pc = "update" /\ trans'.pc = "done"

\* C16: a completed transcription webhook delivered again, for a row that
\* already holds that TranscriptionSid and its transcript entry, changes
\* neither the history nor the metadata nor the status of the row.
C16_TranscriptionRedeliveryIdempotent ==
  [][ \A r \in Rows(active_call_sessions, trans.call_sid) :
        ( /\ TransUpdates
          /\ IsCompletedTranscript(trans.transcription_status, trans.transcription_text)
          /\ r.metadata.twilio_transcription_sid = trans.transcription_sid
          /\ trans.current_metadata.twilio_transcription_sid = trans.transcription_sid
          /\ Contains(r.conversation_history, TranscriptTurn(trans.transcription_text)) )
        => \E q \in active_call_sessions' :
             /\ q.conversation_history = r.conversation_history
             /\ q.metadata = r.metadata
             /\ q.status = r.status ]_vars

\* C17: when the download of the recording failed, the handled webhook has
\* put nothing into storage, and leaves the row with the download's error
\* message, the processed flag false, and a progress that is none of
\* processing, processing_artifacts, completed.
C17_DownloadFailureReported ==
  [][ (RecFinishes /\ rec.found /\ rec.err_msg = DownloadErrorText)
      => /\ call_recordings' = call_recordings
         /\ ~rec.uploaded
         /\ \A q \in Rows(active_call_sessions', rec.call_sid) :
              /\ q.metadata.recording_processing_error = DownloadErrorText
              /\ ~q.metadata.twilio_recording_processed_successfully
         /\ get_call_progress_status(active_call_sessions', rec.call_sid)
              \notin { St("processing"), St("processing_artifacts"), St("completed") } ]_vars

\* C18: once a recording webhook whose recording was stored and a completed
\* transcription webhook for the same call have both finished, in whatever
\* order their steps ran, the row's metadata has the transcription text with
\* its id.
C18_ConcurrentMetadataSurvives ==
  ( /\ rec.pc = "done" /\ rec.http = "200" /\ call_recordings # {}
    /\ trans.pc = "done" /\ trans.appended )
  => \A r \in active_call_sessions :
       /\ r.metadata.twilio_transcription_text = TranscriptText
       /\ r.metadata.twilio_transcription_sid = TheTranscriptionSid

\* C19: when make_outbound_call answers success with a call_sid, the table
\* has the row of that call_sid: status initiated, the greeting as the one
\* AI turn of the history, the outreach_id, and the context in the metadata.
C19_SuccessImpliesSessionRow ==
  [][ (mk.pc = "placed" /\ mk'.result = "success")
      => \E q \in Rows(active_call_sessions', mk.call_sid) :
           /\ q.status = St("initiated")
           /\ q.conversation_history = << AiTurn(Greeting) >>
           /\ q.outreach_id = TheOutreachId
           /\ q.metadata.creator_name # None
           /\ q.metadata.brand_name # None
           /\ q.metadata.campaign_objective # None
           /\ q.metadata.email_conversation_summary # None ]_vars

\* the progress of every call the model knows
Progress(sid) == get_call_progress_status(active_call_sessions, sid)

\* C20 as stated: the progress is one of processing, processing_artifacts,
\* completed, failed, not_found.
C20_FiveProgressValues ==
  \A sid \in CallSids :
    Progress(sid) \in { St("processing"), St("processing_artifacts"), St("completed"),
                        St("failed"), St("not_found") }

\* C20: the progress is one of processing, processing_artifacts, completed,
\* failed, canceled, error_processing_recording, not_found; it is not_found
\* exactly when the table has no row for the call_sid, completed only when
\* the row's processed flag is true, and the row's own status when that is
\* failed, canceled or error_processing_recording and the recording is not
\* processed.
C20_ProgressValues ==
  \A sid \in CallSids :
    /\ Progress(sid) \in { St("processing"), St("processing_artifacts"), St("completed"),
                           St("failed"), St("canceled"), St("error_processing_recording"),
                           St("not_found") }
    /\ Progress(sid) = St("not_found") <=> ~HasRow(active_call_sessions, sid)
    /\ Progress(sid) = St("completed")
         => \A r \in Rows(active_call_sessions, sid) :
              r.metadata.twilio_recording_processed_successfully
    /\ \A r \in Rows(active_call_sessions, sid) :
         ( /\ r.status \in PassedOnStatuses \ { St("completed") }
           /\ ~r.metadata.twilio_recording_processed_successfully )
         => Progress(sid) = r.status

C20_Witness ==
  \E sid \in CallSids :
    /\ HasRow(active_call_sessions, sid)
    /\ Progress(sid) = St("error_processing_recording")

\* C21: every webhook that has been taken in is answered in the end, also
\* when the LLM request or the recording download never answers.
C21_WebhookEventuallyAnswers ==
  /\ (speech.pc \notin { "idle", "done" }) ~> (speech.pc = "done")
  /\ (rec.pc \notin { "idle", "done" }) ~> (rec.pc = "done")
  /\ (trans.pc \notin { "idle", "done" }) ~> (trans.pc = "done")

\* a step in which generate_audio_with_elevenlabs ran and its URL was used
Synthesises ==
  \/ SpeechFinishes /\ speech.found
  \/ mk.pc = "idle" /\ mk'.pc = "placed"

C23_RepeatVariantByCause ==
  [][ (SpeechFinishes /\ speech.found)
      => \A q \in Rows(active_call_sessions', speech.call_sid) :
           /\ speech.speech_result_blank
                => /\ q.conversation_history[Len(q.conversation_history)] = AiTurn(EmptySpeechText)
                   /\ q.status = St("waiting_for_user_speech_empty")
           /\ (~speech.speech_result_blank /\ speech.speech_confidence < ConfidenceThreshold)
                => /\ q.conversation_history[Len(q.conversation_history)] = AiTurn(LowConfText)
                   /\ q.status = St("waiting_for_user_speech_low_conf") ]_vars

\* a step that takes in a recording-status webhook
RecReceives == rec.pc \in { "idle", "done" } /\ rec' # rec

\* C24: without the outreach_id of the query the handler takes the one of the
\* row of the CallSid, and none when there is no row; a request goes on only
\* with a CallSid and an outreach_id, and otherwise is answered 400 with the
\* session table and the recording storage as they were.
C24_OutreachIdFallback ==
  [][ /\ \A sid \in CallSids :
           resolve_outreach_id(None, active_call_sessions, sid) =
             IF HasRow(active_call_sessions, sid)
               THEN maybe_single(active_call_sessions, sid).outreach_id
               ELSE None
      /\ RecReceives
           => /\ rec'.pc = "fetch" => rec'.call_sid # None /\ rec'.outreach_id # None
              /\ rec'.pc # "fetch"
                   => /\ rec'.pc = "done" /\ rec'.http = "400"
                      /\ UNCHANGED << active_call_sessions, call_recordings >> ]_vars

C24_Witness ==
  /\ rec.pc = "done" /\ rec.http = "400"
  /\ active_call_sessions # {}
  /\ call_recordings = {}

\* C25: every entry of a row's conversation_history has a message of the
\* row's outreach with the same text in the message log.
C25_MessageLogMirrorsHistory ==
  \A r \in active_call_sessions :
    \A i \in 1..Len(r.conversation_history) :
      \E j \in 1..Len(conversation_messages) :
        /\ conversation_messages[j].outreach_id = r.outreach_id
        /\ conversation_messages[j].content = r.conversation_history[i].text

\* the call_sids that have a row
Sids(table) == { r.call_sid : r \in table }

\* C26: the rows of the table change as a set only when make_outbound_call
\* stores the row of a call_sid that had none; every other step leaves the
\* same call_sids with the same number of rows, and no call_sid ever has two.
C26_OnlyMakeCallCreatesRows ==
  [][ /\ \A sid \in Sids(active_call_sessions') :
           Cardinality(Rows(active_call_sessions', sid)) = 1
      /\ IF mk.pc = "placed" /\ mk'.pc = "done"
           THEN \/ active_call_sessions' = active_call_sessions
                \/ /\ mk.call_sid \notin Sids(active_call_sessions)
                   /\ Sids(active_call_sessions') = Sids(active_call_sessions) \cup { mk.call_sid }
           ELSE Sids(active_call_sessions') = Sids(active_call_sessions) ]_vars

C26_Witness ==
  /\ rec.pc = "done" /\ rec.http = "200"
  /\ trans.pc = "done" /\ trans.appended
  /\ Cardinality(active_call_sessions) = 1

\* the handler has fetched the session and chooses its branch
RecChoosesBranch == rec.pc = "fetch" /\ rec'.pc # "fetch"

\* the reconciler runs only for a completed call with RecordingSid and
\* RecordingUrl whose fetched session is not marked processed, and storage
\* changes only in a request that runs it
ReconcilerGuarded ==
  /\ RecChoosesBranch
       => ( rec'.pc = "download"
            <=> /\ rec.actual_call_status = St("completed")
                /\ rec.recording_sid # None
                /\ rec.recording_url_twilio # NoUrl
                /\ ~rec'.fetched_metadata.twilio_recording_processed_successfully )
  /\ RecChoosesBranch /\ rec'.pc # "download" => rec'.pc = "final_update" /\ ~rec'.reconciled
  /\ call_recordings' # call_recordings => rec.reconciled

\* C27: handle_recording_status runs the reconciler only when CallStatus is
\* completed, RecordingSid and RecordingUrl are present and the fetched
\* session is not marked processed; a request that does not run it leaves
\* storage as it is and changes, in the row, only the status and the three
\* bookkeeping keys of the metadata.
C27_ReconcilerOnlyWhenDue ==
  [][ /\ ReconcilerGuarded
      /\ (RecFinishes /\ ~rec.reconciled)
           => \A r \in Rows(active_call_sessions, rec.call_sid) :
                [ r EXCEPT !.status = rec.actual_call_status,
                           !.metadata = recording_status_metadata(r.metadata,
                                          rec.actual_call_status, rec.source, rec.recording_sid) ]
                  \in active_call_sessions' ]_vars

\* C28: a row whose status is exactly waiting_for_user_speech has a history
\* that is not empty and ends with an AI turn.
C28_WaitingImpliesLastTurnAi ==
  \A r \in active_call_sessions :
    r.status = St("waiting_for_user_speech")
    => /\ Len(r.conversation_history) > 0
       /\ r.conversation_history[Len(r.conversation_history)].speaker = "ai"

\* C29: a step of handle_user_speech leaves the metadata of every row as it
\* is, and a step of handle_recording_status or of the reconciler leaves the
\* conversation_history of every row as it is.
C29_HandlersKeepToTheirColumns ==
  [][ \A r \in active_call_sessions : \A q \in Rows(active_call_sessions', r.call_sid) :
        /\ speech' # speech => q.metadata = r.metadata
        /\ rec' # rec => q.conversation_history = r.conversation_history ]_vars

C29_Witness ==
  /\ speech.pc = "done" /\ speech.path = "turn"
  /\ rec.pc = "done" /\ rec.http = "200"
  /\ \E r \in active_call_sessions :
       /\ Len(r.conversation_history) = 3
       /\ r.metadata.last_twilio_callback_source = "call_create"
       /\ r.metadata.creator_name # None

\* C30: every row has a status: no write leaves the status of a row null.
C30_StatusNeverNull ==
  \A r \in active_call_sessions : r.status # NoStatus

====
